---- MODULE Spec2Model ----
(***************************************************************************)
(* A model of src/node/train.py (ha-lins/mvgrl, node-level training).      *)
(*                                                                         *)
(* Four specifications share the variables below:                          *)
(*   Spec         the control flow of train() as __main__ drives it: the   *)
(*                epoch loop with early stopping and checkpointing, then   *)
(*                restore, embedding extraction and the linear probe;      *)
(*   SpecAttn     GraphAttentionLayer.forward on bounded windows;          *)
(*   SpecBatch    the tensor pipeline of one epoch of train(): windows,    *)
(*                shuffle, sampler, gather, Model.forward, labels;         *)
(*   SpecReadout  Readout.forward on bounded tensors.                      *)
(* A specification leaves the variables of the others at their idle value. *)
(***************************************************************************)
EXTENDS Integers, Sequences, FiniteSets

\* ------------------------------------------------------------- bounds ----
\* The hyper-parameters of train() are scaled down; their source values are
\* nb_epochs = 3000, patience = 20 (train.py:184-185), 50 runs (train.py:431)
\* and 50 probe trials (train.py:398).
nb_epochs == 5
patience == 2
Runs == 2
ProbeTrials == 2
\* Finite losses are 1..MaxLoss; NaN stands for a loss that compares false.
MaxLoss == 2
\* Sizes, scaled down from sample_size = 2500, batch_size = 4,
\* sig_sample_size = 2000 (train.py:197-199), hid_units = 512 (train.py:188);
\* NNodes is adj.shape[-1] and ft_size is features.shape[1] of the loaded graph.
NNodes == 4
sample_size == 3
sig_sample_size == 2
batch_size == 2
ft_size == 2
hid_units == 1
\* Entries of the tensors handed to Readout.forward are 0..MaxEntry
MaxEntry == 2
\* exp(d) is 2^(ExpRange + d) for -ExpRange <= d <= 0 and underflows to 0 below
ExpRange == 2

\* ---------------------------------------------------------- variables ----
VARIABLES
  \* Spec: train() and the __main__ loop
  pc,        \* position in train(): "train", "restore", "embed", "probe", "done", "failed"
  run,       \* index of the current call of train() from __main__
  cuda,      \* torch.cuda.is_available()
  epoch,     \* the loop variable of `for epoch in range(nb_epochs)`; -1 before the loop
  cnt_wait,
  best,
  best_t,
  ckpt,      \* the file 'model.pkl': NoFile or the parameters last saved to it
  params,    \* the parameters the model holds, tagged by the step that produced them
  restored,  \* what load_state_dict(torch.load('model.pkl')) put in the model
  hist,      \* the losses of this run's epochs, in order
  saves,     \* the epochs of this run in which torch.save was called
  phases,    \* the phases after the loop that this run has executed, in order
  trial,     \* number of completed probe trials
  failure,   \* why the run raised: "none", "no_checkpoint", "no_cuda"
  \* SpecAttn: one call of GraphAttentionLayer.forward
  apc,       \* "idle", "ready" (arguments bound), "done" (returned)
  attn_in,   \* the arguments: input, adj, sig_sample_size, and the layer's W and a
  sig_scores,\* line 176, as numerators over one common denominator
  indices,   \* line 178-180, the returned indices
  \* SpecBatch: the tensors of one epoch of train()
  bpc,       \* "idle", "sample", "attend", "forward", "done"
  graph,     \* what load(dataset) returned: ori_adj, adj, diff, features; and the sampler's a
  lbl,       \* train.py:205-207
  bo, ba, bd, bf,   \* the batch of windows (train.py:269-289)
  shuf_fts,  \* train.py:291
  bi,        \* the loop variable of train.py:304
  ids,       \* the sampler's result for each batch element handled so far
  sampled_ba, sampled_bd, sampled_bf,   \* train.py:300-302, 335-337
  logits,    \* train.py:348, each entry named by what it scores
  \* SpecReadout: one call of Readout.forward
  rpc,       \* "idle", "ready", "done"
  rseq, rmsk,   \* the arguments
  rout       \* the result, each entry an exact fraction

loopVars == <<pc, run, cuda, epoch, cnt_wait, best, best_t, ckpt, params,
              restored, hist, saves, phases, trial, failure>>

attnVars == <<apc, attn_in, sig_scores, indices>>

batchVars == <<bpc, graph, lbl, bo, ba, bd, bf, shuf_fts, bi, ids,
               sampled_ba, sampled_bd, sampled_bf, logits>>

readVars == <<rpc, rseq, rmsk, rout>>

vars == <<loopVars, attnVars, batchVars, readVars>>

\* ------------------------------------------------------------ values -----
NaN == -1
\* best = 1e9 (train.py:224)
BestInit == 1000000000
Losses == (1..MaxLoss) \cup {NaN, BestInit}

NoFile == [run |-> 0, epoch |-> -1]
Fresh(r) == [run |-> r, epoch |-> -1]
NotRestored == [run |-> -1, epoch |-> -1]

\* `loss < best` on floats: false as soon as one side is NaN (train.py:359)
\* (variant: <= in place of <, so that a tie moves best_t; C10 fails under it)
LossLtLe(loss, b) == loss # NaN /\ b # NaN /\ loss <= b
LossLt(loss, b) == loss # NaN /\ b # NaN /\ loss < b

\* ------------------------------------------------------------- train() ---
\* train.py:183-225: a fresh model, and the bookkeeping of the loop
StartState(r, c, file) ==
  /\ pc = "train"
  /\ run = r
  /\ cuda = c
  /\ epoch = -1
  /\ cnt_wait = 0
  /\ best = BestInit
  /\ best_t = 0
  /\ ckpt = file
  /\ params = Fresh(r)
  /\ restored = NotRestored
  /\ hist = <<>>
  /\ saves = {}
  /\ phases = <<>>
  /\ trial = 0
  /\ failure = "none"

\* train.py:367-370 and the end of range(nb_epochs): where the loop goes next
\* (variant: > in place of ==, one epoch too many; C1 fails under it)
AfterEpochOff(e, cw) == IF cw > patience \/ e + 1 = nb_epochs THEN "restore" ELSE "train"
AfterEpoch(e, cw) == IF cw = patience \/ e + 1 = nb_epochs THEN "restore" ELSE "train"

\* train.py:227-370: one iteration of the epoch loop. The forward and backward
\* pass and optimiser.step() (train.py:345-354) leave the model with new
\* parameters and yield the loss, which is an input here.
TrainEpoch ==
  /\ pc = "train"
  /\ epoch + 1 < nb_epochs
  /\ \E loss \in Losses :
       LET e == epoch + 1
           stepped == [run |-> run, epoch |-> e]
       IN /\ epoch' = e
          /\ params' = stepped
          /\ hist' = Append(hist, loss)
          /\ IF LossLt(loss, best)
             THEN /\ best' = loss
                  /\ best_t' = e
                  /\ cnt_wait' = 0
                  /\ ckpt' = stepped
                  /\ saves' = saves \cup {e}
                  /\ pc' = AfterEpoch(e, 0)
             ELSE /\ cnt_wait' = cnt_wait + 1
                  /\ pc' = AfterEpoch(e, cnt_wait + 1)
                  /\ UNCHANGED <<best, best_t, ckpt, saves>>
  /\ UNCHANGED <<run, cuda, restored, phases, trial, failure>>
  /\ UNCHANGED <<attnVars, batchVars, readVars>>

\* train.py:375: model.load_state_dict(torch.load('model.pkl'))
Restore ==
  /\ pc = "restore"
  /\ phases' = Append(phases, "restore")
  /\ IF ckpt = NoFile
     THEN /\ pc' = "failed"
          /\ failure' = "no_checkpoint"
          /\ UNCHANGED <<params, restored>>
     ELSE /\ pc' = "embed"
          /\ params' = ckpt
          /\ restored' = ckpt
          /\ UNCHANGED failure
  /\ UNCHANGED <<run, cuda, epoch, cnt_wait, best, best_t, ckpt, hist, saves, trial>>
  /\ UNCHANGED <<attnVars, batchVars, readVars>>

\* train.py:381-393: features.cuda(), adj.cuda(), diff.cuda() are not guarded
\* by torch.cuda.is_available(); model.embed runs once on the full graph.
Embed ==
  /\ pc = "embed"
  /\ phases' = Append(phases, "embed")
  /\ IF cuda
     THEN /\ pc' = "probe"
          /\ UNCHANGED failure
     ELSE /\ pc' = "failed"
          /\ failure' = "no_cuda"
  /\ UNCHANGED <<run, cuda, epoch, cnt_wait, best, best_t, ckpt, params,
                 restored, hist, saves, trial>>
  /\ UNCHANGED <<attnVars, batchVars, readVars>>

\* train.py:398-415: one trial of the linear probe; log.cuda() is not guarded.
ProbeTrial ==
  /\ pc = "probe"
  /\ trial < ProbeTrials
  /\ phases' = IF trial = 0 THEN Append(phases, "probe") ELSE phases
  /\ IF cuda
     THEN /\ trial' = trial + 1
          /\ UNCHANGED <<pc, failure>>
     ELSE /\ pc' = "failed"
          /\ failure' = "no_cuda"
          /\ UNCHANGED trial
  /\ UNCHANGED <<run, cuda, epoch, cnt_wait, best, best_t, ckpt, params,
                 restored, hist, saves>>
  /\ UNCHANGED <<attnVars, batchVars, readVars>>

\* train.py:417-418: the accuracies are printed and train() returns
ProbeDone ==
  /\ pc = "probe"
  /\ trial = ProbeTrials
  /\ pc' = "done"
  /\ UNCHANGED <<run, cuda, epoch, cnt_wait, best, best_t, ckpt, params,
                 restored, hist, saves, phases, trial, failure>>
  /\ UNCHANGED <<attnVars, batchVars, readVars>>

\* train.py:431-433: __main__ calls train() again; 'model.pkl' stays on disk
NextRun ==
  /\ pc = "done"
  /\ run < Runs
  /\ pc' = "train"
  /\ run' = run + 1
  /\ epoch' = -1
  /\ cnt_wait' = 0
  /\ best' = BestInit
  /\ best_t' = 0
  /\ params' = Fresh(run + 1)
  /\ restored' = NotRestored
  /\ hist' = <<>>
  /\ saves' = {}
  /\ phases' = <<>>
  /\ trial' = 0
  /\ UNCHANGED <<cuda, ckpt, failure>>
  /\ UNCHANGED <<attnVars, batchVars, readVars>>

\* The variables of the other specifications, at rest
IdleAttn == apc = "idle" /\ attn_in = <<>> /\ sig_scores = <<>> /\ indices = <<>>
IdleLoop ==
  /\ pc = "idle" /\ run = 0 /\ cuda = FALSE /\ epoch = -1 /\ cnt_wait = 0
  /\ best = BestInit /\ best_t = 0 /\ ckpt = NoFile /\ params = NoFile
  /\ restored = NotRestored /\ hist = <<>> /\ saves = {} /\ phases = <<>>
  /\ trial = 0 /\ failure = "none"

IdleBatch ==
  /\ bpc = "idle" /\ graph = <<>> /\ lbl = <<>> /\ bo = <<>> /\ ba = <<>>
  /\ bd = <<>> /\ bf = <<>> /\ shuf_fts = <<>> /\ bi = 0 /\ ids = <<>>
  /\ sampled_ba = <<>> /\ sampled_bd = <<>> /\ sampled_bf = <<>> /\ logits = <<>>
IdleRead == rpc = "idle" /\ rseq = <<>> /\ rmsk = <<>> /\ rout = <<>>

Init ==
  /\ \E c \in BOOLEAN : StartState(1, c, NoFile)
  /\ IdleAttn /\ IdleBatch /\ IdleRead

Next == TrainEpoch \/ Restore \/ Embed \/ ProbeTrial \/ ProbeDone \/ NextRun

Spec == Init /\ [][Next]_vars

\* ------------------------------------------------------ tensor helpers ---
\* Tensors are functions over 0..n-1, nested per axis, as the code indexes them.
RECURSIVE SumTo(_, _)
SumTo(f, n) == IF n = 0 THEN 0 ELSE f[n - 1] + SumTo(f, n - 1)

RECURSIVE ProdTo(_, _)
ProdTo(f, n) == IF n = 0 THEN 1 ELSE f[n - 1] * ProdTo(f, n - 1)

Size(t) == Cardinality(DOMAIN t)

MaxOf(S) == CHOOSE x \in S : \A y \in S : y <= x

\* torch.mm(A, B)
Mm(A, B) ==
  [i \in DOMAIN A |->
     [o \in DOMAIN B[0] |-> SumTo([f \in DOMAIN B |-> A[i][f] * B[f][o]], Size(B))]]

\* ------------------------------------------- GraphAttentionLayer.forward -
\* nn.LeakyReLU(alpha) with alpha = 0.2 (train.py:163, 209); the arguments
\* drawn below are positive or multiples of five, so the quotient is exact
LeakyRelu(x) == IF x > 0 THEN x ELSE -((-x) \div 5)

\* zero_vec = -9e15 * torch.ones_like(e) (train.py:172), scaled to the model's integers
zero_vec == -1000000

\* exp on the differences softmax takes, as a fixed-point weight
ExpW(d) == IF d < -ExpRange THEN 0 ELSE 2 ^ (ExpRange + d)

\* h.repeat(1, N).view(N * N, -1): row r of the flat view (train.py:169)
RepeatColsView(h, N, O) ==
  [r \in 0..(N * N - 1) |->
     [o \in 0..(O - 1) |-> h[(r * O + o) \div (N * O)][((r * O + o) % (N * O)) % O]]]

\* h.repeat(N, 1): row r (train.py:169)
RepeatRows(h, N, O) == [r \in 0..(N * N - 1) |-> h[r % N]]

\* torch.cat([x, y], dim=1).view(N, -1, 2 * out_features) (train.py:169)
AInput(h, N, O) ==
  LET x == RepeatColsView(h, N, O)
      y == RepeatRows(h, N, O)
      flat == [r \in 0..(N * N - 1) |->
                 [c \in 0..(2 * O - 1) |-> IF c < O THEN x[r][c] ELSE y[r][c - O]]]
  IN [i \in 0..(N - 1) |-> [j \in 0..(N - 1) |-> flat[i * N + j]]]

\* e = leakyrelu(matmul(a_input, a).squeeze(2)) (train.py:170)
AttnLogits(h, a, N, O) ==
  LET ai == AInput(h, N, O)
  IN [i \in 0..(N - 1) |->
        [j \in 0..(N - 1) |->
           LeakyRelu(SumTo([c \in 0..(2 * O - 1) |-> ai[i][j][c] * a[c][0]], 2 * O))]]

\* torch.where(adj > 0, e, zero_vec) (train.py:173)
Masked(adj, e) ==
  [i \in DOMAIN e |-> [j \in DOMAIN e[i] |-> IF adj[i][j] > 0 THEN e[i][j] ELSE zero_vec]]

\* F.softmax(attention, dim=1) (train.py:174): each row's weights exp(x - max)
\* and their sum; the entry is w[i][j] / s[i]
SoftmaxRows(att) ==
  LET w == [i \in DOMAIN att |->
              [j \in DOMAIN att[i] |->
                 ExpW(att[i][j] - MaxOf({att[i][k] : k \in DOMAIN att[i]}))]]
  IN [w |-> w, s |-> [i \in DOMAIN att |-> SumTo(w[i], Size(w[i]))]]

\* torch.sum(attention, dim=0) (train.py:176): column j sums w[i][j] / s[i] over
\* the rows i; kept exact as a numerator over the product of the row sums
SigScores(sm) ==
  LET N == Size(sm.w)
      den == ProdTo(sm.s, N)
  IN [num |-> [j \in 0..(N - 1) |-> SumTo([i \in 0..(N - 1) |-> sm.w[i][j] * (den \div sm.s[i])], N)],
      den |-> den]

\* torch.topk(sig_scores, k) (train.py:178): the indices of the k largest
\* entries, largest first; the order among equal entries is not defined,
\* so every order is a possible result
\* (variant: ArgMin, as topk(..., largest=False) would pick; C5 fails under it)
ArgMin(num, rem) == {j \in rem : \A k \in rem : num[j] <= num[k]}
ArgMax(num, rem) == {j \in rem : \A k \in rem : num[k] <= num[j]}

RECURSIVE TopKFrom(_, _, _)
TopKFrom(num, rem, k) ==
  IF k = 0 THEN {<<>>}
  ELSE UNION {{<<j>> \o t : t \in TopKFrom(num, rem \ {j}, k - 1)} : j \in ArgMax(num, rem)}

ZeroBased(s) == [k \in 0..(Len(s) - 1) |-> s[k + 1]]

TopK(num, k) == {ZeroBased(s) : s \in TopKFrom(num, DOMAIN num, k)}

\* train.py:165-176: sig_scores for (input, adj) under the layer's W and a
ForwardScores(input, adj, W, a) ==
  LET h == Mm(input, W)
      N == Size(h)
      e == AttnLogits(h, a, N, Size(W[0]))
  IN SigScores(SoftmaxRows(Masked(adj, e)))

\* ---- SpecAttn: the layer applied to bounded windows -----------------------
\* The layer's parameters (train.py:158-161) are drawn once at construction and
\* train() never updates them. W reads the first feature; a weighs the first
\* unit of each half of the concatenated pair.
AttnW == [f \in 0..(ft_size - 1) |-> [o \in 0..(hid_units - 1) |-> IF f = 0 THEN 1 ELSE 0]]
AttnAs ==
  {[c \in 0..(2 * hid_units - 1) |->
      [z \in {0} |-> IF c = 0 THEN p[1] ELSE IF c = hid_units THEN p[2] ELSE 0]] :
     p \in {<<1, 1>>, <<-5, -5>>, <<0, 0>>}}

\* A node's features: a bit the layer reads, then the node's number
FeatureRow(bit, node) == [f \in 0..(ft_size - 1) |-> IF f = 0 THEN bit ELSE node]

RowPatterns == {"none", "self", "all", "others"}
AdjRow(i, pat, N) ==
  [j \in 0..(N - 1) |->
     CASE pat = "none" -> 0
       [] pat = "self" -> IF j = i THEN 1 ELSE 0
       [] pat = "all" -> 1
       [] OTHER -> IF j = i THEN 0 ELSE 1]

InitAttn ==
  /\ IdleLoop /\ IdleBatch /\ IdleRead
  /\ apc = "ready"
  /\ sig_scores = <<>>
  /\ indices = <<>>
  /\ \E bits \in [0..(sample_size - 1) -> {0, 1}],
        pats \in [0..(sample_size - 1) -> RowPatterns],
        a \in AttnAs, k \in 1..sample_size :
       attn_in = [input |-> [i \in 0..(sample_size - 1) |-> FeatureRow(bits[i], i)],
                  adj |-> [i \in 0..(sample_size - 1) |-> AdjRow(i, pats[i], sample_size)],
                  k |-> k, W |-> AttnW, a |-> a]

\* train.py:165-180
AttnForward ==
  /\ apc = "ready"
  /\ LET sc == ForwardScores(attn_in.input, attn_in.adj, attn_in.W, attn_in.a)
     IN /\ sig_scores' = sc
        /\ \E res \in TopK(sc.num, attn_in.k) : indices' = res
  /\ apc' = "done"
  /\ UNCHANGED <<attn_in, loopVars, batchVars, readVars>>

NextAttn == AttnForward

SpecAttn == InitAttn /\ [][NextAttn]_vars

\* ------------------------------------------------- indexing and gather ---
\* M[i: i + n, i: i + n] (train.py:269-271)
SliceSquare(M, i, n) == [r \in 0..(n - 1) |-> [c \in 0..(n - 1) |-> M[i + r][i + c]]]

\* F[i: i + n] (train.py:272)
SliceRows(F, i, n) == [r \in 0..(n - 1) |-> F[i + r]]

\* T[idx, :] for one batch element (train.py:291, 337)
IndexRows(T, idx) == [k \in DOMAIN idx |-> T[idx[k]]]

\* M[ids, ids] with two index tensors pairs them up: entry k is M[ids[k]][ids[k]]
PairIndex(M, rows, cols) == [k \in DOMAIN rows |-> M[rows[k]][cols[k]]]

\* target[bi, :, :] = v with v of shape (n,): v is broadcast to every row
BroadcastRows(v, n) == [r \in 0..(n - 1) |-> v]

\* sampled[bi, :, :] = M[bi, ids, ids] (train.py:335-336)
\* (variant: GatherSubmatrix, the K x K submatrix M[ids][:, ids]; C9 fails under it)
GatherSubmatrix(M, sel) == [r \in DOMAIN sel |-> [c \in DOMAIN sel |-> M[sel[r]][sel[c]]]]
GatherSquare(M, sel) == BroadcastRows(PairIndex(M, sel, sel), Size(sel))

\* torch.zeros(n, m)
Zeros(n, m) == [r \in 0..(n - 1) |-> [c \in 0..(m - 1) |-> 0]]
Ones(n, m) == [r \in 0..(n - 1) |-> [c \in 0..(m - 1) |-> 1]]

\* torch.cat((x, y), 1)
Cat1(x, y) ==
  [b \in DOMAIN x |->
     [k \in 0..(Size(x[b]) + Size(y[b]) - 1) |->
        IF k < Size(x[b]) THEN x[b][k] ELSE y[b][k - Size(x[b])]]]

\* np.random.permutation(n) (train.py:290): any permutation of 0..n-1
Permutations(n) ==
  {p \in [0..(n - 1) -> 0..(n - 1)] : \A i, j \in 0..(n - 1) : p[i] = p[j] => i = j}

\* -------------------------------------------------- Model.forward, named --
\* The encoders and the bilinear form are numerical; an embedding is named by
\* the encoder, the feature tensor and the adjacency tensor it came from, and a
\* score by the summary and the embedding it compares.

\* GCN.forward (train.py:36-44) in the dense path: one embedding per node of seq
GCN(enc, seq, adjt) ==
  [b \in DOMAIN seq.data |->
     [n \in DOMAIN seq.data[b] |-> [enc |-> enc, seq |-> seq.name, adj |-> adjt.name, node |-> n]]]

\* self.f_k(h, c_x) squeezed (train.py:83-88): one score per node of h
Bilinear(h, c) ==
  [b \in DOMAIN h |-> [n \in DOMAIN h[b] |-> [summary |-> c, enc |-> h[b][n].enc,
                                              seq |-> h[b][n].seq, node |-> n]]]

\* Discriminator.forward (train.py:75-91)
\* (variant: the scores of c1 first, then those of c2; C4 fails under it)
DiscriminatorInterleaved(c1, c2, h1, h2, h3, h4) ==
  Cat1(Cat1(Bilinear(h2, c1), Bilinear(h4, c1)), Cat1(Bilinear(h1, c2), Bilinear(h3, c2)))
Discriminator(c1, c2, h1, h2, h3, h4) ==
  LET sc_1 == Bilinear(h2, c1)
      sc_2 == Bilinear(h1, c2)
      sc_3 == Bilinear(h4, c1)
      sc_4 == Bilinear(h3, c2)
  IN Cat1(Cat1(Cat1(sc_1, sc_2), sc_3), sc_4)

\* Model.forward (train.py:105-119): c_1 pools h_1 and c_2 pools h_2
ModelForward(seq1, seq2, adjt, difft) ==
  LET h_1 == GCN(1, seq1, adjt)
      h_2 == GCN(2, seq1, difft)
      h_3 == GCN(1, seq2, adjt)
      h_4 == GCN(2, seq2, difft)
  IN Discriminator("c_1", "c_2", h_1, h_2, h_3, h_4)

\* ------------------------------------------- SpecBatch: one epoch's tensors
\* The loaded graph. adj and diff carry a different number in every entry, so
\* that an entry of a gathered tensor tells where it was read from.
GraphShapes == {"lower", "upper", "path", "arrow"}
OriAdj(shape) ==
  [i \in 0..(NNodes - 1) |->
     [j \in 0..(NNodes - 1) |->
        CASE shape = "lower" -> IF j <= i THEN 1 ELSE 0
          [] shape = "upper" -> IF j >= i THEN 1 ELSE 0
          [] shape = "path" -> IF j - i \in {-1, 0, 1} THEN 1 ELSE 0
          [] OTHER -> IF j = i + 1 THEN 1 ELSE 0]]
BitPatterns == {"zero", "alt"}
Bit(pat, i) ==
  IF pat = "zero" THEN 0 ELSE i % 2
Entry(base, i, j) == base + NNodes * i + j

InitBatch ==
  /\ IdleLoop /\ IdleAttn /\ IdleRead
  /\ bpc = "sample"
  /\ \E shape \in GraphShapes, pat \in BitPatterns, a \in AttnAs :
       graph = [ori_adj |-> OriAdj(shape),
                adj |-> [i \in 0..(NNodes - 1) |-> [j \in 0..(NNodes - 1) |-> Entry(100, i, j)]],
                diff |-> [i \in 0..(NNodes - 1) |-> [j \in 0..(NNodes - 1) |-> Entry(200, i, j)]],
                features |-> [i \in 0..(NNodes - 1) |-> FeatureRow(Bit(pat, i), i)],
                W |-> AttnW, a |-> a]
  /\ lbl = Cat1(Ones(batch_size, sig_sample_size * 2), Zeros(batch_size, sig_sample_size * 2))
  /\ bo = <<>> /\ ba = <<>> /\ bd = <<>> /\ bf = <<>> /\ shuf_fts = <<>>
  /\ bi = 0 /\ ids = <<>>
  /\ sampled_ba = <<>> /\ sampled_bd = <<>> /\ sampled_bf = <<>> /\ logits = <<>>

\* train.py:229-302: the windows, the shuffled features, the zeroed targets
SampleWindows ==
  /\ bpc = "sample"
  /\ \E idx \in [0..(batch_size - 1) -> 0..(NNodes - sample_size)],
        perm \in Permutations(sig_sample_size) :
       LET win == [b \in 0..(batch_size - 1) |-> SliceRows(graph.features, idx[b], sample_size)]
       IN /\ bo' = [b \in 0..(batch_size - 1) |-> SliceSquare(graph.ori_adj, idx[b], sample_size)]
          /\ ba' = [b \in 0..(batch_size - 1) |-> SliceSquare(graph.adj, idx[b], sample_size)]
          /\ bd' = [b \in 0..(batch_size - 1) |-> SliceSquare(graph.diff, idx[b], sample_size)]
          /\ bf' = win
          /\ shuf_fts' = [b \in 0..(batch_size - 1) |-> IndexRows(win[b], perm)]
  /\ sampled_ba' = [b \in 0..(batch_size - 1) |-> Zeros(sig_sample_size, sig_sample_size)]
  /\ sampled_bd' = [b \in 0..(batch_size - 1) |-> Zeros(sig_sample_size, sig_sample_size)]
  /\ sampled_bf' = [b \in 0..(batch_size - 1) |-> Zeros(sig_sample_size, ft_size)]
  /\ bi' = 0
  /\ ids' = <<>>
  /\ bpc' = "attend"
  /\ UNCHANGED <<graph, lbl, logits, loopVars, attnVars, readVars>>

\* train.py:304-337: one iteration of `for bi in range(batch_size)`
SampleSignificant ==
  /\ bpc = "attend"
  /\ bi < batch_size
  /\ \E res \in TopK(ForwardScores(bf[bi], bo[bi], graph.W, graph.a).num, sig_sample_size) :
       /\ ids' = [b \in 0..bi |-> IF b = bi THEN res ELSE ids[b]]
       /\ sampled_ba' = [sampled_ba EXCEPT ![bi] = GatherSquare(ba[bi], res)]
       /\ sampled_bd' = [sampled_bd EXCEPT ![bi] = GatherSquare(bd[bi], res)]
       /\ sampled_bf' = [sampled_bf EXCEPT ![bi] = IndexRows(bf[bi], res)]
  /\ bi' = bi + 1
  /\ bpc' = IF bi + 1 = batch_size THEN "forward" ELSE "attend"
  /\ UNCHANGED <<graph, lbl, bo, ba, bd, bf, shuf_fts, logits, loopVars, attnVars, readVars>>

\* train.py:348: model(sampled_bf, shuf_fts, sampled_ba, sampled_bd, ...)
ForwardPass ==
  /\ bpc = "forward"
  /\ logits' = ModelForward([name |-> "sampled_bf", data |-> sampled_bf],
                            [name |-> "shuf_fts", data |-> shuf_fts],
                            [name |-> "sampled_ba", data |-> sampled_ba],
                            [name |-> "sampled_bd", data |-> sampled_bd])
  /\ bpc' = "done"
  /\ UNCHANGED <<graph, lbl, bo, ba, bd, bf, shuf_fts, bi, ids, sampled_ba,
                 sampled_bd, sampled_bf, loopVars, attnVars, readVars>>

NextBatch == SampleWindows \/ SampleSignificant \/ ForwardPass

SpecBatch == InitBatch /\ [][NextBatch]_vars

\* ------------------------------------------------------ Readout.forward --
\* msk = None
None == <<>>

\* torch.mean(seq, 1) (train.py:54): entry [b][f] as the fraction num / den
MeanNodes(seq) ==
  [b \in DOMAIN seq |->
     [f \in DOMAIN seq[b][0] |->
        [num |-> SumTo([n \in DOMAIN seq[b] |-> seq[b][n][f]], Size(seq[b])),
         den |-> Size(seq[b])]]]

\* torch.sum(msk) (train.py:57): one number for the whole batch
TotalMask(msk) ==
  SumTo([b \in DOMAIN msk |-> SumTo(msk[b], Size(msk[b]))], Size(msk))

\* Readout.forward (train.py:52-57); a zero den stands for the division by zero
Readout(seq, msk) ==
  IF msk = None
  THEN MeanNodes(seq)
  ELSE LET m == [b \in DOMAIN msk |-> [n \in DOMAIN msk[b] |-> [z \in {0} |-> msk[b][n]]]]
           prod == [b \in DOMAIN seq |->
                      [n \in DOMAIN seq[b] |->
                         [f \in DOMAIN seq[b][n] |-> seq[b][n][f] * m[b][n][0]]]]
           mean == MeanNodes(prod)
       IN [b \in DOMAIN mean |->
             [f \in DOMAIN mean[b] |->
                [num |-> mean[b][f].num, den |-> mean[b][f].den * TotalMask(msk)]]]

\* ---- SpecReadout: the layer applied to bounded tensors, as Model.forward
\* hands them over: batch_size x sig_sample_size x hid_units
InitReadout ==
  /\ IdleLoop /\ IdleAttn /\ IdleBatch
  /\ rpc = "ready"
  /\ rseq \in [0..(batch_size - 1) ->
                 [0..(sig_sample_size - 1) -> [0..(hid_units - 1) -> 0..MaxEntry]]]
  /\ rmsk \in {None} \cup [0..(batch_size - 1) -> [0..(sig_sample_size - 1) -> {0, 1}]]
  /\ rout = <<>>

ReadoutCall ==
  /\ rpc = "ready"
  /\ rout' = Readout(rseq, rmsk)
  /\ rpc' = "done"
  /\ UNCHANGED <<rseq, rmsk, loopVars, attnVars, batchVars>>

NextReadout == ReadoutCall

SpecReadout == InitReadout /\ [][NextReadout]_vars

\* =================================================================== claims
\* ---- under Spec -----------------------------------------------------------
LoopExited == pc \in {"restore", "embed", "probe", "done", "failed"}
Improved == best # BestInit

\* C1, as stated: whenever the loop has exited with cnt_wait = patience, the
\* last epoch executed is best_t + patience.
C1_StopsAtBestTPlusPatience ==
  (LoopExited /\ cnt_wait = patience) => epoch = best_t + patience

\* C1, amended: the loop never starts an epoch once cnt_wait has reached
\* patience; when it exits with cnt_wait = patience the last epoch executed is
\* best_t + patience if some epoch of the run improved on the initial best, and
\* patience - 1 if none did (best_t is then still its initial 0); when it exits
\* with cnt_wait < patience the epoch limit was reached. The last epoch was executed.
C1_EarlyStop ==
  /\ pc = "train" => cnt_wait < patience
  /\ (LoopExited /\ cnt_wait = patience) =>
        /\ epoch = IF Improved THEN best_t + patience ELSE patience - 1
        /\ Len(hist) = epoch + 1
  /\ (LoopExited /\ cnt_wait # patience) =>
        /\ epoch = nb_epochs - 1
        /\ Len(hist) = nb_epochs

\* C1 witness: an early stop, before the epoch limit, after an improvement at a later epoch than 0
C1_Witness ==
  /\ pc = "restore" /\ cnt_wait = patience /\ Improved
  /\ best_t > 0 /\ epoch = best_t + patience /\ epoch < nb_epochs - 1

\* The best-seen loss before epoch e: the initial best and the earlier losses
\* that compare (a NaN loss never becomes best)
BestBefore(h, e) ==
  LET seen == {BestInit} \cup {h[i] : i \in {i \in 1..e : h[i] # NaN}}
  IN CHOOSE m \in seen : \A x \in seen : m <= x

ImprovingEpochs(h) ==
  {e \in 0..(Len(h) - 1) : h[e + 1] # NaN /\ h[e + 1] < BestBefore(h, e)}

\* C2, as stated: torch.save ran in exactly the epochs whose loss improved on
\* the best-seen loss, and once the restore has been attempted the model holds
\* the parameters saved in this run at epoch best_t.
C2_RestoresThisRunsBest ==
  /\ pc # "idle" => saves = ImprovingEpochs(hist)
  /\ (LoopExited /\ pc # "restore") =>
        /\ restored = [run |-> run, epoch |-> best_t]
        /\ best_t \in saves

\* C6, as stated: without an accelerator no phase fails for want of one.
C6_HostOnlyFallback == ~cuda => failure # "no_cuda"

\* C8, as stated: the loop runs at most nb_epochs epochs, and a run that has
\* ended has performed restore, embedding extraction and the probe, once each
\* and in that order.
C8_PhasesInOrder ==
  /\ Len(hist) <= nb_epochs
  /\ pc \in {"done", "failed"} => phases = <<"restore", "embed", "probe">>

\* C10: when the first loss is below the initial best and no loss is NaN, then
\* after every epoch e, best is the least loss of epochs 0..e, best_t the first
\* epoch with that loss, cnt_wait = e - best_t and 0 <= cnt_wait <= patience.
C10_Bookkeeping ==
  (/\ pc # "idle" /\ hist # <<>>
   /\ \A i \in 1..Len(hist) : hist[i] # NaN
   /\ hist[1] < BestInit) =>
     LET e == Len(hist) - 1
         least == CHOOSE m \in {hist[i] : i \in 1..Len(hist)} :
                    \A i \in 1..Len(hist) : m <= hist[i]
         first == CHOOSE t \in 0..e :
                    /\ hist[t + 1] = least
                    /\ \A u \in 0..(t - 1) : hist[u + 1] # least
     IN /\ epoch = e
        /\ best = least
        /\ best_t = first
        /\ cnt_wait = e - best_t
        /\ 0 <= cnt_wait /\ cnt_wait <= patience

\* C10 witness: the last epoch's loss equals the best, which an earlier epoch,
\* not the first, set
C10_Witness ==
  /\ pc = "train" /\ Len(hist) >= 3
  /\ \A i \in 1..Len(hist) : hist[i] # NaN
  /\ hist[1] < BestInit
  /\ best_t >= 1 /\ cnt_wait >= 1
  /\ hist[Len(hist)] = best

\* ---- under SpecAttn -------------------------------------------------------
Selected == {indices[k] : k \in DOMAIN indices}
EdgelessRows == {i \in DOMAIN attn_in.adj : \A j \in DOMAIN attn_in.adj[i] : attn_in.adj[i][j] <= 0}

\* C5: the layer returns exactly k pairwise distinct indices of the window, and
\* no node left out scores higher than a node returned. The scores are column
\* sums of a matrix whose rows each sum to one: they add up to N, and a node no
\* row with an edge points to gets 1/N from each edgeless row and nothing else.
C5_TopKSignificant ==
  apc = "done" =>
    LET N == Size(attn_in.input)
        num == sig_scores.num
    IN /\ DOMAIN indices = 0..(attn_in.k - 1)
       /\ Selected \subseteq 0..(N - 1)
       /\ Cardinality(Selected) = attn_in.k
       /\ \A s \in Selected : \A t \in (0..(N - 1)) \ Selected : num[s] >= num[t]
       /\ sig_scores.den > 0
       /\ SumTo(num, N) = N * sig_scores.den
       /\ \A j \in 0..(N - 1) :
            (\A i \in (0..(N - 1)) \ EdgelessRows : attn_in.adj[i][j] <= 0) =>
               num[j] * N = sig_scores.den * Cardinality(EdgelessRows)

\* C5 witness: a window with an edgeless row and a row with edges, fewer
\* indices asked for than nodes, and a node left out that scores strictly less
C5_Witness ==
  /\ apc = "done"
  /\ EdgelessRows # {} /\ EdgelessRows # DOMAIN attn_in.adj
  /\ attn_in.k = 2
  /\ \E s \in Selected : \E t \in (DOMAIN attn_in.adj) \ Selected :
        sig_scores.num[s] > sig_scores.num[t]

\* ---- under SpecBatch ------------------------------------------------------
RowCount(T, row) == Cardinality({k \in DOMAIN T : T[k] = row})

\* C3, as stated: for every batch element the tensor passed as seq2 has the
\* shape and the same rows, counted, as the tensor passed as seq1.
C3_ShuffleOfSampled ==
  bpc \in {"forward", "done"} =>
    \A b \in 0..(batch_size - 1) :
      /\ DOMAIN shuf_fts[b] = DOMAIN sampled_bf[b]
      /\ \A k \in DOMAIN sampled_bf[b] :
           /\ RowCount(shuf_fts[b], sampled_bf[b][k]) = RowCount(sampled_bf[b], sampled_bf[b][k])
           /\ RowCount(shuf_fts[b], shuf_fts[b][k]) = RowCount(sampled_bf[b], shuf_fts[b][k])

\* What column k of the logits must score, K nodes per view
Scored(k, K) ==
  CASE k < K -> [summary |-> "c_1", enc |-> 2, seq |-> "sampled_bf", node |-> k]
    [] k >= K /\ k < 2 * K -> [summary |-> "c_2", enc |-> 1, seq |-> "sampled_bf", node |-> k - K]
    [] k >= 2 * K /\ k < 3 * K -> [summary |-> "c_1", enc |-> 2, seq |-> "shuf_fts", node |-> k - 2 * K]
    [] OTHER -> [summary |-> "c_2", enc |-> 1, seq |-> "shuf_fts", node |-> k - 3 * K]

\* C4: the logits have the shape of lbl, batch x 4K; their columns are
\* score(c1,h2), score(c2,h1), score(c1,h4), score(c2,h3) in that order, with
\* h1, h2 built from seq1 and h3, h4 from seq2; and lbl is 1 exactly on the
\* columns that score an embedding of seq1, 0 exactly on those of seq2.
C4_LogitLabelAlignment ==
  bpc = "done" =>
    /\ DOMAIN logits = 0..(batch_size - 1)
    /\ DOMAIN lbl = DOMAIN logits
    /\ \A b \in DOMAIN logits :
         /\ DOMAIN logits[b] = 0..(4 * sig_sample_size - 1)
         /\ DOMAIN lbl[b] = DOMAIN logits[b]
         /\ \A k \in DOMAIN logits[b] :
              /\ logits[b][k] = Scored(k, sig_sample_size)
              /\ lbl[b][k] = 1 <=> logits[b][k].seq = "sampled_bf"
              /\ lbl[b][k] = 0 <=> logits[b][k].seq = "shuf_fts"
              /\ lbl[b][k] = 1 <=> k < 2 * sig_sample_size

\* C4 witness: the forward pass has run; the last positive column and the
\* first negative column sit either side of 2K
C4_Witness ==
  /\ bpc = "done"
  /\ logits[batch_size - 1][2 * sig_sample_size - 1].seq = "sampled_bf"
  /\ lbl[batch_size - 1][2 * sig_sample_size - 1] = 1
  /\ logits[batch_size - 1][2 * sig_sample_size].seq = "shuf_fts"
  /\ lbl[batch_size - 1][2 * sig_sample_size] = 0

\* C9: for every batch element handled, row k of sampled_bf is row ids[k] of
\* the window's features, and every row of sampled_ba (sampled_bd) is the
\* vector of the diagonal entries of ba (bd) at ids.
C9_DiagonalGather ==
  bpc \in {"attend", "forward", "done"} =>
    \A b \in DOMAIN ids :
      /\ DOMAIN ids[b] = 0..(sig_sample_size - 1)
      /\ DOMAIN sampled_bf[b] = 0..(sig_sample_size - 1)
      /\ \A k \in 0..(sig_sample_size - 1) : sampled_bf[b][k] = bf[b][ids[b][k]]
      /\ \A r, c \in 0..(sig_sample_size - 1) :
           /\ sampled_ba[b][r][c] = ba[b][ids[b][c]][ids[b][c]]
           /\ sampled_bd[b][r][c] = bd[b][ids[b][c]][ids[b][c]]

\* C9 witness: every batch element is handled and an entry of sampled_ba
\* differs from the submatrix entry ba[ids[r]][ids[c]]
C9_Witness ==
  /\ bpc = "done"
  /\ DOMAIN ids = 0..(batch_size - 1)
  /\ \E r, c \in 0..(sig_sample_size - 1) :
        sampled_ba[batch_size - 1][r][c] # ba[batch_size - 1][ids[batch_size - 1][r]][ids[batch_size - 1][c]]

\* ---- under SpecReadout ----------------------------------------------------
\* C7, as stated: with a mask of non-zero total, entry [b][f] of the result is
\* (sum over n of seq[b][n][f] * msk[b][n]) / (sum of msk); with msk = None
\* it is the mean over the nodes. Fractions are compared by cross-multiplying.
C7_MaskedMean ==
  rpc = "done" =>
    \A b \in DOMAIN rseq : \A f \in DOMAIN rseq[b][0] :
      IF rmsk = None
      THEN rout[b][f].num * Size(rseq[b]) =
             SumTo([n \in DOMAIN rseq[b] |-> rseq[b][n][f]], Size(rseq[b])) * rout[b][f].den
      ELSE TotalMask(rmsk) # 0 =>
             rout[b][f].num * TotalMask(rmsk) =
               SumTo([n \in DOMAIN rseq[b] |-> rseq[b][n][f] * rmsk[b][n]], Size(rseq[b]))
                 * rout[b][f].den

====
